---- MODULE Spec2Model ----
(***************************************************************************)
(* Model of chatgpt_history_mcp.py: the export parser (tree flattener),    *)
(* the TF-IDF SearchEngine and the three read-only tools that serve the    *)
(* loaded collection.                                                      *)
(*                                                                         *)
(* Conventions.                                                            *)
(*  - A Python str is a sequence of one-character strings.                 *)
(*  - An optional JSON field is <<>> (absent or null) or <<v>>.            *)
(*  - Python list positions are 0-based; positions here are 1-based.       *)
(*  - A float score tf*idf is kept as the exact fraction num/den, where    *)
(*    den is the document's token count and idf is in thousandths.         *)
(*  - update_time and model_slug are carried by no modelled operation and  *)
(*    are left out of the Conversation record.                             *)
(***************************************************************************)
EXTENDS Integers, Sequences, FiniteSets, TLC

VARIABLES raw, pc, entry_i, conversations, current_id, messages, visited,
          root_id, engine, response

vars == <<raw, pc, entry_i, conversations, current_id, messages, visited,
          root_id, engine, response>>

(***************************************************************************)
(* Bounds of the model.                                                    *)
(***************************************************************************)
MaxEntries == 3
MaxLimit == 2
MaxWalk == 4

(***************************************************************************)
(* Strings.                                                                *)
(***************************************************************************)
UpperChars == <<"A","B","C","D","E","F","G","H","I","J","K","L","M",
                "N","O","P","Q","R","S","T","U","V","W","X","Y","Z">>

LowerChars == <<"a","b","c","d","e","f","g","h","i","j","k","l","m",
                "n","o","p","q","r","s","t","u","v","w","x","y","z">>

DigitChars == <<"0","1","2","3","4","5","6","7","8","9">>

Range(s) == {s[k] : k \in DOMAIN s}

\* str.lower() on one character
LowerChar(c) ==
  IF \E k \in DOMAIN UpperChars : UpperChars[k] = c
  THEN LowerChars[CHOOSE k \in DOMAIN UpperChars : UpperChars[k] = c]
  ELSE c

\* str.lower()
Lower(s) == [k \in DOMAIN s |-> LowerChar(s[k])]

\* the characters str.strip() removes
IsSpace(c) == c \in {" ", "\n", "\t"}

\* str.strip()
Strip(s) ==
  IF \A k \in DOMAIN s : IsSpace(s[k]) THEN <<>>
  ELSE LET lo == CHOOSE k \in DOMAIN s :
                   /\ ~IsSpace(s[k])
                   /\ \A j \in 1..(k-1) : IsSpace(s[j])
           hi == CHOOSE k \in DOMAIN s :
                   /\ ~IsSpace(s[k])
                   /\ \A j \in (k+1)..Len(s) : IsSpace(s[j])
       IN SubSeq(s, lo, hi)

\* the Python expression  a in b  on two strings
Contains(b, a) ==
  \E k \in 0..(Len(b) - Len(a)) : SubSeq(b, k + 1, k + Len(a)) = a

\* sep.join(list)
RECURSIVE Join(_, _)
Join(sep, list) ==
  IF list = <<>> THEN <<>>
  ELSE IF Len(list) = 1 THEN list[1]
  ELSE list[1] \o sep \o Join(sep, Tail(list))

\* the character class [a-z0-9]
IsTokenChar(c) == c \in Range(LowerChars) \cup Range(DigitChars)

\* re.findall(r"[a-z0-9]+", s): the maximal runs, left to right
RECURSIVE FindRuns(_, _, _)
FindRuns(s, run, out) ==
  IF s = <<>> THEN (IF run = <<>> THEN out ELSE Append(out, run))
  ELSE IF IsTokenChar(Head(s))
       THEN FindRuns(Tail(s), Append(run, Head(s)), out)
       ELSE FindRuns(Tail(s), <<>>,
                     IF run = <<>> THEN out ELSE Append(out, run))

\* SearchEngine._tokenize
tokenize(text) == FindRuns(Lower(text), <<>>, <<>>)

(***************************************************************************)
(* Raw export values.                                                      *)
(*  content : [kind: "none" | "str" | "dict", s, parts]                    *)
(*            "none" stands for an absent, null or empty content           *)
(*  part    : [pk: "str" | "text" | "other", s]                            *)
(*  author  : [kind: "absent" | "null" | "dict", role: <<>> | <<r>>]       *)
(*  message : [author, content, create_time]                               *)
(*  node    : [id, parent, children, message]                              *)
(*  mapping : sequence of nodes with distinct ids, in iteration order      *)
(***************************************************************************)
NoContent == [kind |-> "none", s |-> <<>>, parts |-> <<>>]
StrContent(s) == [kind |-> "str", s |-> s, parts |-> <<>>]
PartsContent(parts) == [kind |-> "dict", s |-> <<>>, parts |-> parts]
StrPart(s) == [pk |-> "str", s |-> s]
TextPart(s) == [pk |-> "text", s |-> s]
OtherPart == [pk |-> "other", s |-> <<>>]

\* the truth value of msg.get("content")
ContentTruthy(content) ==
  \/ content.kind = "dict"
  \/ content.kind = "str" /\ content.s # <<>>

\* the parts of a content object that carry text, in order
RECURSIVE PartTexts(_)
PartTexts(parts) ==
  IF parts = <<>> THEN <<>>
  ELSE (IF Head(parts).pk \in {"str", "text"} THEN <<Head(parts).s>>
        ELSE <<>>) \o PartTexts(Tail(parts))

\* _extract_text
extract_text(content) ==
  IF content.kind = "str" THEN content.s
  ELSE Join(<<"\n">>, PartTexts(content.parts))

Roles == {"user", "assistant", "system", "tool"}

Message(role, text, timestamp) ==
  [role |-> role, text |-> text, timestamp |-> timestamp]

\* msg_data.get("author", {}) fails on a null author
AuthorFails(author) == author.kind = "null"

\* msg_data.get("author", {}).get("role", "unknown")
AuthorRole(author) ==
  IF author.kind = "dict" /\ author.role # <<>> THEN author.role[1]
  ELSE "unknown"

HasNode(mapping, id) == \E k \in DOMAIN mapping : mapping[k].id = id

\* mapping.get(current_id, {})
GetNode(mapping, id) ==
  IF HasNode(mapping, id)
  THEN mapping[CHOOSE k \in DOMAIN mapping : mapping[k].id = id]
  ELSE [id |-> id, parent |-> <<>>, children |-> <<>>, message |-> <<>>]

\* the root test of _flatten_message_tree
IsRootLikeNoParent(mapping, node) == node.parent = <<>>

IsRootLike(mapping, node) ==
  node.parent = <<>> \/ ~HasNode(mapping, node.parent[1])

\* root search of _flatten_message_tree: <<>> when no node qualifies
FindRoot(mapping) ==
  IF \E k \in DOMAIN mapping : IsRootLike(mapping, mapping[k])
  THEN <<mapping[CHOOSE k \in DOMAIN mapping :
                  /\ IsRootLike(mapping, mapping[k])
                  /\ \A j \in 1..(k-1) : ~IsRootLike(mapping, mapping[j])].id>>
  ELSE <<>>

\* the child the walk follows: children[0]
NextChildLast(children) ==
  IF children = <<>> THEN <<>> ELSE <<children[Len(children)]>>

NextChild(children) ==
  IF children = <<>> THEN <<>> ELSE <<children[1]>>

\* does the body of one loop iteration raise
NodeFails(node) ==
  /\ node.message # <<>>
  /\ ContentTruthy(node.message[1].content)
  /\ AuthorFails(node.message[1].author)

\* the emit test of the tree walk
Emits(node) ==
  /\ node.message # <<>>
  /\ ContentTruthy(node.message[1].content)
  /\ Strip(extract_text(node.message[1].content)) # <<>>
  /\ AuthorRole(node.message[1].author) \in Roles

NodeMessage(node) ==
  Message(AuthorRole(node.message[1].author),
          extract_text(node.message[1].content),
          node.message[1].create_time)

(***************************************************************************)
(* parse_chatgpt_export: entries, the flat "messages" fallback, the sort.  *)
(*  entry    : [id, title, create_time, mapping, messages]                 *)
(*  flat msg : [role, author, content, create_time]                        *)
(***************************************************************************)
Untitled == <<"U","n","t","i","t","l","e","d">>

\* Conversation(id=..., title=entry.get("title", "Untitled"), ...)
Conversation(entry, msgs) ==
  [id |-> entry.id,
   title |-> IF entry.title = <<>> THEN Untitled ELSE entry.title[1],
   create_time |-> entry.create_time,
   messages |-> msgs]

\* msg.get("role", msg.get("author", {}).get("role", "unknown"))
FlatRole(msg) ==
  IF msg.role # <<>> THEN msg.role[1] ELSE AuthorRole(msg.author)

\* the default argument of msg.get("role", ...) is evaluated eagerly
FlatFails(msg) ==
  /\ ContentTruthy(msg.content)
  /\ Strip(extract_text(msg.content)) # <<>>
  /\ AuthorFails(msg.author)

FlatEmits(msg) ==
  /\ ContentTruthy(msg.content)
  /\ Strip(extract_text(msg.content)) # <<>>

\* the loop over entry.get("messages", [])
RECURSIVE FlatMessages(_)
FlatMessages(msgs) ==
  IF msgs = <<>> THEN <<>>
  ELSE (IF FlatEmits(Head(msgs))
        THEN <<Message(FlatRole(Head(msgs)),
                       extract_text(Head(msgs).content),
                       Head(msgs).create_time)>>
        ELSE <<>>) \o FlatMessages(Tail(msgs))

\* if conv.messages: conversations.append(conv)
AppendAlways(convs, conv) == Append(convs, conv)

AppendIfMessages(convs, conv) ==
  IF conv.messages # <<>> THEN Append(convs, conv) ELSE convs

\* key=lambda c: c.create_time or 0
SortKey(c) == IF c.create_time = <<>> THEN 0 ELSE c.create_time[1]

\* list.sort(key, reverse=True) is stable: equal keys keep their order
RECURSIVE InsertAsc(_, _)
InsertAsc(sorted, c) ==
  IF sorted = <<>> THEN <<c>>
  ELSE IF SortKey(Head(sorted)) <= SortKey(c)
       THEN <<Head(sorted)>> \o InsertAsc(Tail(sorted), c)
       ELSE <<c>> \o sorted

RECURSIVE InsertDesc(_, _)
InsertDesc(sorted, c) ==
  IF sorted = <<>> THEN <<c>>
  ELSE IF SortKey(Head(sorted)) >= SortKey(c)
       THEN <<Head(sorted)>> \o InsertDesc(Tail(sorted), c)
       ELSE <<c>> \o sorted

RECURSIVE SortNewestFirst(_)
SortNewestFirst(convs) ==
  IF convs = <<>> THEN <<>>
  ELSE InsertDesc(SortNewestFirst(SubSeq(convs, 1, Len(convs) - 1)),
                  convs[Len(convs)])

(***************************************************************************)
(* SearchEngine: index                                                     *)
(***************************************************************************)
\* Conversation.full_text
full_text(conv) ==
  Join(<<" ">>, <<conv.title>> \o [k \in DOMAIN conv.messages |->
                                     conv.messages[k].text])

\* Counter(tokens)[term]
Count(term, tokens) == Cardinality({k \in DOMAIN tokens : tokens[k] = term})

\* 1000 * ln(k), rounded, for k = 1 .. 10
LnMilli == <<0, 693, 1099, 1386, 1609, 1792, 1946, 2079, 2197, 2303>>

\* math.log((n_docs + 1) / (df + 1)) + 1, in thousandths
Idf(n_docs, df) == LnMilli[n_docs + 1] - LnMilli[df + 1] + 1000

\* SearchEngine._build_index: posting (idx, count / total_tokens)
build_index(convs) ==
  LET toks == [k \in DOMAIN convs |-> tokenize(full_text(convs[k]))]
      terms == UNION {Range(toks[k]) : k \in DOMAIN convs}
      df(t) == Cardinality({k \in DOMAIN convs : t \in Range(toks[k])})
      posting(k, t) == [idx |-> k, count |-> Count(t, toks[k]),
                        total |-> Len(toks[k])]
      postings(t) == SelectSeq([k \in DOMAIN convs |-> posting(k, t)],
                               LAMBDA p : p.count > 0)
  IN [index |-> [t \in terms |-> postings(t)],
      idf |-> [t \in terms |-> Idf(Len(convs), df(t))]]

(***************************************************************************)
(* _parse_date                                                             *)
(***************************************************************************)
\* seconds per day of datetime.timestamp()
Day == 86400

IsDigit(c) == c \in Range(DigitChars)

DigitVal(c) == (CHOOSE k \in DOMAIN DigitChars : DigitChars[k] = c) - 1

AllDigits(s) == \A k \in DOMAIN s : IsDigit(s[k])

RECURSIVE NumVal(_)
NumVal(s) ==
  IF s = <<>> THEN 0
  ELSE 10 * NumVal(SubSeq(s, 1, Len(s) - 1)) + DigitVal(s[Len(s)])

\* %m : 1[0-2]|0[1-9]|[1-9]
MonthField(s) ==
  /\ Len(s) \in {1, 2}
  /\ AllDigits(s)
  /\ NumVal(s) \in 1..12

\* %d : 3[01]|[12]\d|0[1-9]|[1-9]| [1-9]
DayField(s) ==
  \/ /\ Len(s) \in {1, 2}
     /\ AllDigits(s)
     /\ NumVal(s) \in 1..31
  \/ /\ Len(s) = 2
     /\ s[1] = " "
     /\ IsDigit(s[2])
     /\ DigitVal(s[2]) \in 1..9

DayVal(s) == IF s[1] = " " THEN DigitVal(s[2]) ELSE NumVal(s)

IsLeap(y) == (y % 4 = 0 /\ y % 100 # 0) \/ y % 400 = 0

DaysInMonth(y, m) ==
  IF m = 2 THEN (IF IsLeap(y) THEN 29 ELSE 28)
  ELSE IF m \in {4, 6, 9, 11} THEN 30 ELSE 31

\* days from 1970-01-01 to the civil date y-m-d (proleptic Gregorian)
DaysFromCivil(y, m, d) ==
  LET yy == IF m <= 2 THEN y - 1 ELSE y
      era == yy \div 400
      yoe == yy - era * 400
      mp == IF m > 2 THEN m - 3 ELSE m + 9
      doy == (153 * mp + 2) \div 5 + d - 1
      doe == yoe * 365 + yoe \div 4 - yoe \div 100 + doy
  IN era * 146097 + doe - 719468

\* datetime.strptime(date_str.strip(), "%Y-%m-%d") ... .timestamp(),
\* <<>> for the ValueError branch
parse_date_lenient(date_str) ==
  LET t == Strip(date_str)
      dashes == {k \in DOMAIN t : t[k] = "-"}
  IN IF Cardinality(dashes) = 2 /\ 5 \in dashes
     THEN LET d2 == CHOOSE k \in dashes : k # 5
              ys == SubSeq(t, 1, 4)
              ms == SubSeq(t, 6, d2 - 1)
              ds == SubSeq(t, d2 + 1, Len(t))
          IN IF /\ d2 > 5
                /\ AllDigits(ys)
                /\ NumVal(ys) >= 1
                /\ MonthField(ms)
                /\ DayField(ds)
             THEN <<DaysFromCivil(NumVal(ys), NumVal(ms), DayVal(ds)) * Day>>
             ELSE <<>>
     ELSE <<>>

parse_date(date_str) ==
  LET t == Strip(date_str)
      dashes == {k \in DOMAIN t : t[k] = "-"}
  IN IF Cardinality(dashes) = 2 /\ 5 \in dashes
     THEN LET d2 == CHOOSE k \in dashes : k # 5
              ys == SubSeq(t, 1, 4)
              ms == SubSeq(t, 6, d2 - 1)
              ds == SubSeq(t, d2 + 1, Len(t))
          IN IF /\ d2 > 5
                /\ AllDigits(ys)
                /\ NumVal(ys) >= 1
                /\ MonthField(ms)
                /\ DayField(ds)
                /\ DayVal(ds) <= DaysInMonth(NumVal(ys), NumVal(ms))
             THEN <<DaysFromCivil(NumVal(ys), NumVal(ms), DayVal(ds)) * Day>>
             ELSE <<>>
     ELSE <<>>

(***************************************************************************)
(* SearchEngine.search                                                     *)
(*  scores : the dict idx -> score in insertion order, as a sequence of    *)
(*           [idx, num, den] (score = num / den thousandths)               *)
(***************************************************************************)
HasScore(scores, idx) == \E k \in DOMAIN scores : scores[k].idx = idx

\* scores[idx] = scores.get(idx, 0) + tf * idf
AddScoreOverwrite(scores, p, idf) ==
  IF HasScore(scores, p.idx)
  THEN [k \in DOMAIN scores |->
          IF scores[k].idx = p.idx
          THEN [scores[k] EXCEPT !.num = p.count * idf]
          ELSE scores[k]]
  ELSE Append(scores, [idx |-> p.idx, num |-> p.count * idf, den |-> p.total])

AddScore(scores, p, idf) ==
  IF HasScore(scores, p.idx)
  THEN [k \in DOMAIN scores |->
          IF scores[k].idx = p.idx
          THEN [scores[k] EXCEPT !.num = @ + p.count * idf]
          ELSE scores[k]]
  ELSE Append(scores, [idx |-> p.idx, num |-> p.count * idf, den |-> p.total])

\* for idx, tf in self._index.get(token, [])
RECURSIVE AddPostings(_, _, _)
AddPostings(scores, postings, idf) ==
  IF postings = <<>> THEN scores
  ELSE AddPostings(AddScore(scores, Head(postings), idf), Tail(postings), idf)

\* for token in query_tokens
RECURSIVE AddTokens(_, _, _)
AddTokens(scores, tokens, eng) ==
  IF tokens = <<>> THEN scores
  ELSE IF Head(tokens) \in DOMAIN eng.index
       THEN AddTokens(AddPostings(scores, eng.index[Head(tokens)],
                                  eng.idf[Head(tokens)]),
                      Tail(tokens), eng)
       ELSE AddTokens(scores, Tail(tokens), eng)

\* query_lower in conv.title.lower()
TitleHasWords(query, title) ==
  /\ tokenize(query) # <<>>
  /\ Range(tokenize(query)) \subseteq Range(tokenize(title))

TitleMatches(query, title) == Contains(Lower(title), Lower(query))

\* scores[idx] = scores.get(idx, 0) * 2.0
BoostScore(scores, idx) ==
  IF HasScore(scores, idx)
  THEN [k \in DOMAIN scores |->
          IF scores[k].idx = idx
          THEN [scores[k] EXCEPT !.num = @ * 2]
          ELSE scores[k]]
  ELSE Append(scores, [idx |-> idx, num |-> 0, den |-> 1])

\* for idx, conv in enumerate(self.conversations), from position idx on
RECURSIVE BoostTitles(_, _, _, _)
BoostTitles(scores, query, convs, idx) ==
  IF idx > Len(convs) THEN scores
  ELSE BoostTitles(IF TitleMatches(query, convs[idx].title)
                   THEN BoostScore(scores, idx) ELSE scores,
                   query, convs, idx + 1)

\* a.score >= b.score
ScoreGeq(a, b) == a.num * b.den >= b.num * a.den

\* sorted(scores.items(), key=lambda x: x[1], reverse=True): stable
RECURSIVE InsertByScore(_, _)
InsertByScore(sorted, e) ==
  IF sorted = <<>> THEN <<e>>
  ELSE IF ScoreGeq(Head(sorted), e)
       THEN <<Head(sorted)>> \o InsertByScore(Tail(sorted), e)
       ELSE <<e>> \o sorted

RECURSIVE SortByScore(_)
SortByScore(scores) ==
  IF scores = <<>> THEN <<>>
  ELSE InsertByScore(SortByScore(SubSeq(scores, 1, Len(scores) - 1)),
                     scores[Len(scores)])

\* _parse_date(date_from) if date_from else None
DateBound(date) ==
  IF date = <<>> \/ date[1] = <<>> THEN <<>> ELSE parse_date(date[1])

\* the two "continue" tests of the result loop
Skipped(conv, ts_from, ts_to) ==
  LET ts == SortKey(conv)
  IN \/ ts_from # <<>> /\ ts_from[1] # 0 /\ ts < ts_from[1]
     \/ ts_to # <<>> /\ ts_to[1] # 0 /\ ts > ts_to[1]

\* the result loop: append, then break once len(results) >= limit
RECURSIVE CollectResults(_, _, _, _, _, _)
CollectResults(ranked, results, limit, ts_from, ts_to, convs) ==
  IF ranked = <<>> THEN results
  ELSE IF Skipped(convs[Head(ranked).idx], ts_from, ts_to)
       THEN CollectResults(Tail(ranked), results, limit, ts_from, ts_to, convs)
       ELSE IF Len(results) + 1 >= limit
            THEN Append(results, Head(ranked))
            ELSE CollectResults(Tail(ranked), Append(results, Head(ranked)),
                                limit, ts_from, ts_to, convs)

\* SearchEngine.search, with the intermediate score tables kept
search(eng, convs, query, limit, date_from, date_to) ==
  LET query_tokens == tokenize(query)
      acc == AddTokens(<<>>, query_tokens, eng)
      boosted == BoostTitles(acc, query, convs, 1)
      ranked == SortByScore(boosted)
  IN IF query_tokens = <<>>
     THEN [acc |-> <<>>, boosted |-> <<>>, ranked |-> <<>>, results |-> <<>>]
     ELSE [acc |-> acc, boosted |-> boosted, ranked |-> ranked,
           results |-> CollectResults(ranked, <<>>, limit,
                                      DateBound(date_from), DateBound(date_to),
                                      convs)]

(***************************************************************************)
(* Listing and point lookup                                                *)
(***************************************************************************)
\* chatgpt_list_conversations, up to the slice
list_page_from_one(convs, offset, limit) ==
  IF convs = <<>>
  THEN [kind |-> "no_conversations", start |-> 0, end |-> 0, page |-> <<>>,
        total |-> <<>>]
  ELSE LET total == Len(convs)
           start == IF offset < total THEN offset ELSE total
           end == IF start + limit < total THEN start + limit ELSE total
       IN [kind |-> "page", start |-> start, end |-> end,
           page |-> SubSeq(convs, IF start = 0 THEN 1 ELSE start, end),
           total |-> <<total>>]

list_page(convs, offset, limit) ==
  IF convs = <<>>
  THEN [kind |-> "no_conversations", start |-> 0, end |-> 0, page |-> <<>>,
        total |-> <<>>]
  ELSE LET total == Len(convs)
           start == IF offset < total THEN offset ELSE total
           end == IF start + limit < total THEN start + limit ELSE total
       IN [kind |-> "page", start |-> start, end |-> end,
           page |-> SubSeq(convs, start + 1, end), total |-> <<total>>]

\* _find_conversation: <<>> for None, else the position of the match
find_conversation_last(convs, conv_id) ==
  IF \E k \in DOMAIN convs : convs[k].id = conv_id
  THEN <<CHOOSE k \in DOMAIN convs :
           /\ convs[k].id = conv_id
           /\ \A j \in (k+1)..Len(convs) : convs[j].id # conv_id>>
  ELSE <<>>

find_conversation(convs, conv_id) ==
  IF \E k \in DOMAIN convs : convs[k].id = conv_id
  THEN <<CHOOSE k \in DOMAIN convs :
           /\ convs[k].id = conv_id
           /\ \A j \in 1..(k-1) : convs[j].id # conv_id>>
  ELSE <<>>

(***************************************************************************)
(* Inputs: the exports the model loads and the arguments of the tools.     *)
(***************************************************************************)
None == <<>>
Some(v) == <<v>>

AuthorOf(role) == [kind |-> "dict", role |-> Some(role)]
AuthorNoRole == [kind |-> "dict", role |-> None]
AuthorAbsent == [kind |-> "absent", role |-> None]
AuthorNull == [kind |-> "null", role |-> None]

RawMsg(author, content) ==
  [author |-> author, content |-> content, create_time |-> Some(Day)]

FlatMsg(role, author, content) ==
  [role |-> role, author |-> author, content |-> content,
   create_time |-> None]

Node(id, parent, children, message) ==
  [id |-> id, parent |-> parent, children |-> children, message |-> message]

Entry(id, title, create_time, mapping, msgs) ==
  [id |-> id, title |-> title, create_time |-> create_time,
   mapping |-> mapping, messages |-> msgs]

\* the node graphs of the load specification: three nodes n1, n2, n3 in
\* iteration order; "zz" is an id that is not a key of the mapping
ParentVecs ==
  { <<None, Some("n1"), Some("n1")>>,
    <<None, Some("n1"), Some("n2")>>,
    <<Some("zz"), Some("n1"), None>>,
    <<Some("n2"), None, Some("n2")>>,
    <<Some("n3"), Some("n1"), Some("n2")>>,
    <<Some("n2"), Some("n3"), Some("zz")>> }

ChildVecs ==
  { << <<"n2", "n3">>, <<>>, <<>> >>,
    << <<"n3", "n2">>, <<>>, <<>> >>,
    << <<"n2">>, <<"n3">>, <<>> >>,
    << <<"n2">>, <<"n1">>, <<>> >>,
    << <<"n1">>, <<>>, <<>> >>,
    << <<"zz">>, <<"n3">>, <<>> >>,
    << <<>>, <<"n3", "n1">>, <<"n1">> >>,
    << <<"n3">>, <<"n1", "n3">>, <<"n2">> >> }

MsgVecs ==
  { << Some(RawMsg(AuthorOf("user"), StrContent(<<"a">>))),
       Some(RawMsg(AuthorOf("assistant"), StrContent(<<"b">>))),
       Some(RawMsg(AuthorOf("tool"), StrContent(<<"c">>))) >>,
    << None,
       Some(RawMsg(AuthorOf("critic"), StrContent(<<"a">>))),
       Some(RawMsg(AuthorOf("user"), StrContent(<<"b">>))) >>,
    << Some(RawMsg(AuthorOf("user"), StrContent(<<" ", "\n">>))),
       Some(RawMsg(AuthorOf("system"),
                   PartsContent(<<StrPart(<<"a">>), OtherPart,
                                  TextPart(<<"b">>)>>))),
       Some(RawMsg(AuthorAbsent, StrContent(<<"c">>))) >>,
    << Some(RawMsg(AuthorNull, StrContent(<<"a">>))),
       Some(RawMsg(AuthorOf("user"), StrContent(<<"b">>))),
       Some(RawMsg(AuthorOf("assistant"), NoContent)) >>,
    << Some(RawMsg(AuthorOf("system"), PartsContent(<<OtherPart>>))),
       Some(RawMsg(AuthorNoRole, StrContent(<<"a">>))),
       Some(RawMsg(AuthorOf("user"), StrContent(<<"c">>))) >> }

NodeIds == <<"n1", "n2", "n3">>

Graph(pv, cv, mv) == [k \in 1..3 |-> Node(NodeIds[k], pv[k], cv[k], mv[k])]

Graphs == {Graph(pv, cv, mv) : pv \in ParentVecs, cv \in ChildVecs,
                               mv \in MsgVecs}

\* the entries of the serving specification
UserMsg(text) == Some(RawMsg(AuthorOf("user"), StrContent(text)))

CorpusPool ==
  { Entry("c1", Some(<<"a">>), Some(Day), <<>>,
          <<FlatMsg(Some("user"), AuthorAbsent, StrContent(<<"c">>))>>),
    Entry("c2", Some(<<"b">>), Some(Day), <<>>,
          <<FlatMsg(None, AuthorAbsent, StrContent(<<"c">>))>>),
    Entry("c1", Some(<<"A", " ", "b">>), None,
          <<Node("n1", None, <<"n2", "n3">>, None),
            Node("n2", Some("n1"), <<>>, UserMsg(<<"b", " ", "a">>)),
            Node("n3", Some("n1"), <<>>, UserMsg(<<"c">>))>>,
          <<>>),
    Entry("c3", Some(<<"c", "a", " ", "b", "c">>), Some(0 - Day),
          <<Node("n1", Some("zz"), <<"n2">>, UserMsg(<<"c">>)),
            Node("n2", Some("n1"), <<>>, None)>>,
          <<>>),
    Entry("c4", None, Some(2 * Day),
          <<Node("n1", Some("n2"), <<"n2">>, UserMsg(<<"a">>)),
            Node("n2", Some("n1"), <<"n1">>, UserMsg(<<"b">>))>>,
          <<>>),
    Entry("c5", Some(<<"b", " ", "a">>), Some(2 * Day), <<>>,
          <<FlatMsg(Some("user"), AuthorAbsent, StrContent(<<" ">>)),
            FlatMsg(None, AuthorOf("assistant"),
                    PartsContent(<<TextPart(<<"a", "-", "b">>)>>))>>) }

\* the exports of at most n entries of S, each entry at most once
RECURSIVE SeqsUpTo(_, _)
SeqsUpTo(S, n) ==
  IF n = 0 THEN {<<>>}
  ELSE LET shorter == SeqsUpTo(S, n - 1)
       IN shorter \cup UNION {{Append(q, e) : e \in S \ Range(q)} :
                                 q \in shorter}

Queries ==
  { <<"a">>, <<"b", " ", "a">>, <<"A", " ", "b">>, <<"c">>, <<"d">>,
    <<"-">>, <<"a", " ", "d", " ", "a">> }

Dates ==
  { None,
    Some(<<"1","9","7","0","-","0","1","-","0","1">>),
    Some(<<" ","1","9","7","0","-","1","-","2">>),
    Some(<<"1","9","7","0","-","0","2","-","3","0">>) }

ConvIds == {"c1", "c3", "c4", "c9"}

(***************************************************************************)
(* The program: main() loads the export, then the tools are served.        *)
(*  pc : "parse"   the entry loop of parse_chatgpt_export                  *)
(*       "walk"    the while loop of _flatten_message_tree                 *)
(*       "serving" mcp.run(): one tool call at a time runs to its return   *)
(*                 (the handlers are coroutines that never await)          *)
(*       "crashed" an exception left main()                                *)
(***************************************************************************)
NoResponse == [op |-> "none"]

InitWith(exports) ==
  /\ raw \in exports
  /\ pc = "parse"
  /\ entry_i = 1
  /\ conversations = <<>>
  /\ current_id = None
  /\ root_id = None
  /\ messages = <<>>
  /\ visited = <<>>
  /\ engine = None
  /\ response = NoResponse

Init == InitWith(SeqsUpTo(CorpusPool, MaxEntries))

InitLoad == InitWith({<<Entry("g", None, None, g, <<>>)>> : g \in Graphs})

\* one iteration of "for entry in raw_json", up to the call of the flattener
ParseEntry ==
  /\ pc = "parse"
  /\ entry_i <= Len(raw)
  /\ LET entry == raw[entry_i]
         root == FindRoot(entry.mapping)
     IN IF entry.mapping # <<>> /\ root # None
        THEN /\ pc' = "walk"
             /\ current_id' = root
             /\ root_id' = root
             /\ UNCHANGED <<entry_i, conversations>>
        ELSE IF entry.mapping = <<>> /\
                \E k \in DOMAIN entry.messages : FlatFails(entry.messages[k])
        THEN /\ pc' = "crashed"
             /\ UNCHANGED <<entry_i, conversations, current_id, root_id>>
        ELSE /\ conversations' = AppendIfMessages(conversations,
                  Conversation(entry,
                     IF entry.mapping # <<>> THEN <<>>
                     ELSE FlatMessages(entry.messages)))
             /\ entry_i' = entry_i + 1
             /\ UNCHANGED <<pc, current_id, root_id>>
  /\ UNCHANGED <<raw, messages, visited, engine, response>>

\* one iteration of "while current_id"
WalkStep ==
  /\ pc = "walk"
  /\ current_id # None
  /\ Len(visited) < MaxWalk
  /\ LET node == GetNode(raw[entry_i].mapping, current_id[1])
     IN IF NodeFails(node)
        THEN /\ pc' = "crashed"
             /\ UNCHANGED <<current_id, messages, visited>>
        ELSE /\ messages' = IF Emits(node)
                            THEN Append(messages, NodeMessage(node))
                            ELSE messages
             /\ current_id' = NextChild(node.children)
             /\ visited' = Append(visited, current_id[1])
             /\ UNCHANGED pc
  /\ UNCHANGED <<raw, entry_i, conversations, root_id, engine, response>>

\* "return messages" and the rest of the entry's iteration
WalkReturn ==
  /\ pc = "walk"
  /\ current_id = None
  /\ conversations' = AppendIfMessages(conversations,
                                       Conversation(raw[entry_i], messages))
  /\ entry_i' = entry_i + 1
  /\ pc' = "parse"
  /\ messages' = <<>>
  /\ visited' = <<>>
  /\ root_id' = None
  /\ UNCHANGED <<raw, current_id, engine, response>>

\* the sort that ends parse_chatgpt_export, then SearchEngine(_conversations)
FinishLoadIndexFirst ==
  /\ pc = "parse"
  /\ entry_i > Len(raw)
  /\ conversations' = SortNewestFirst(conversations)
  /\ engine' = Some(build_index(conversations))
  /\ pc' = "serving"
  /\ UNCHANGED <<raw, entry_i, current_id, root_id, messages, visited,
                 response>>

FinishLoad ==
  /\ pc = "parse"
  /\ entry_i > Len(raw)
  /\ conversations' = SortNewestFirst(conversations)
  /\ engine' = Some(build_index(conversations'))
  /\ pc' = "serving"
  /\ UNCHANGED <<raw, entry_i, current_id, root_id, messages, visited,
                 response>>

\* chatgpt_search
Search ==
  /\ pc = "serving"
  /\ response = NoResponse
  /\ engine # None
  /\ \E query \in Queries, limit \in 1..MaxLimit, date_from \in Dates,
        date_to \in Dates :
       response' = [op |-> "search", query |-> query, limit |-> limit,
                    date_from |-> date_from, date_to |-> date_to,
                    out |-> search(engine[1], conversations, query, limit,
                                   date_from, date_to)]
  /\ UNCHANGED <<raw, pc, entry_i, conversations, current_id, root_id,
                 messages, visited, engine>>

\* chatgpt_list_conversations
ListConversations ==
  /\ pc = "serving"
  /\ response = NoResponse
  /\ \E offset \in 0..(MaxEntries + 1), limit \in 1..MaxLimit :
       response' = [op |-> "list", offset |-> offset, limit |-> limit,
                    out |-> list_page(conversations, offset, limit)]
  /\ UNCHANGED <<raw, pc, entry_i, conversations, current_id, root_id,
                 messages, visited, engine>>

\* chatgpt_get_conversation
GetConversation ==
  /\ pc = "serving"
  /\ response = NoResponse
  /\ \E conv_id \in ConvIds :
       response' = [op |-> "get", conv_id |-> conv_id,
                    found |-> find_conversation(conversations, conv_id)]
  /\ UNCHANGED <<raw, pc, entry_i, conversations, current_id, root_id,
                 messages, visited, engine>>

\* the handler's return value is sent and the server awaits the next call
Respond ==
  /\ pc = "serving"
  /\ response # NoResponse
  /\ response' = NoResponse
  /\ UNCHANGED <<raw, pc, entry_i, conversations, current_id, root_id,
                 messages, visited, engine>>

NextLoad == ParseEntry \/ WalkStep \/ WalkReturn \/ FinishLoad

Next ==
  \/ ParseEntry
  \/ WalkStep
  \/ WalkReturn
  \/ FinishLoad
  \/ Search
  \/ ListConversations
  \/ GetConversation
  \/ Respond

Spec == Init /\ [][Next]_vars

SpecLoad == InitLoad /\ [][NextLoad]_vars

(***************************************************************************)
(* Properties                                                              *)
(***************************************************************************)
IsSearch == pc = "serving" /\ response.op = "search"
IsList == pc = "serving" /\ response.op = "list"
IsGet == pc = "serving" /\ response.op = "get"

Results == response.out.results

\* create_time, taken as 0 when absent
TimeOf(conv) == IF conv.create_time = None THEN 0 ELSE conv.create_time[1]

\* the bound a date argument denotes: None when absent or unparsable
BoundOf(date) == IF date = None THEN None ELSE parse_date(date[1])

\* the date filter of the search contract
InDateRange(conv, date_from, date_to) ==
  /\ BoundOf(date_from) # None => TimeOf(conv) >= BoundOf(date_from)[1]
  /\ BoundOf(date_to) # None => TimeOf(conv) <= BoundOf(date_to)[1]

\* C1: any two returned conversations with equal final scores appear in
\* their relative Collection order (smaller Collection position first).
C1_TiesInCollectionOrder ==
  IsSearch =>
    \A i, j \in DOMAIN Results :
      (i < j /\ Results[i].num * Results[j].den
                  = Results[j].num * Results[i].den)
        => Results[i].idx < Results[j].idx

\* C2: with a parsable date_from and/or date_to, no returned conversation
\* has create_time (0 when absent) before date_from or after date_to.
C2_ResultsInsideDateRange ==
  IsSearch =>
    \A i \in DOMAIN Results :
      InDateRange(conversations[Results[i].idx], response.date_from,
                  response.date_to)

\* C3: the result is the first min(limit, k) entries of the ranking
\* restricted to the conversations that pass the date filter, k being the
\* number of such conversations.
C3_LimitAfterDateFilter ==
  IsSearch =>
    LET passing == SelectSeq(response.out.ranked,
                     LAMBDA e : InDateRange(conversations[e.idx],
                                            response.date_from,
                                            response.date_to))
        k == Len(passing)
        n == IF response.limit < k THEN response.limit ELSE k
    IN /\ Len(Results) = n
       /\ Results = SubSeq(passing, 1, n)

\* the k-th node id of the path root, first child, first child of it, ...
RECURSIVE PathNode(_, _, _)
PathNode(mapping, root, k) ==
  IF k = 1 THEN Some(root)
  ELSE LET prev == PathNode(mapping, root, k - 1)
       IN IF prev = None THEN None
          ELSE LET kids == GetNode(mapping, prev[1]).children
               IN IF kids = <<>> THEN None ELSE Some(kids[1])

\* the messages the nodes of a list of ids carry, in order
RECURSIVE MessagesOf(_, _)
MessagesOf(mapping, ids) ==
  IF ids = <<>> THEN <<>>
  ELSE LET node == GetNode(mapping, Head(ids))
       IN (IF Emits(node) THEN <<NodeMessage(node)>> ELSE <<>>)
          \o MessagesOf(mapping, Tail(ids))

\* C4: the transcript under construction holds only messages of nodes on
\* the path root -> first child -> ..., in path order; a node off that path
\* (reachable only through a second or later child) contributes nothing.
C4_FirstChildPathOnly ==
  pc = "walk" =>
    LET mapping == raw[entry_i].mapping
    IN /\ \A k \in DOMAIN visited :
            PathNode(mapping, root_id[1], k) = Some(visited[k])
       /\ messages = MessagesOf(mapping, visited)

C4_Witness ==
  /\ pc = "walk"
  /\ current_id = None
  /\ Len(visited) = 2
  /\ Len(messages) = 2
  /\ LET mapping == raw[entry_i].mapping
     IN \E k \in DOMAIN mapping :
          /\ Len(mapping[k].children) = 2
          /\ mapping[k].id = visited[1]
          /\ mapping[k].children[2] \notin Range(visited)
          /\ Emits(GetNode(mapping, mapping[k].children[2]))

\* C5: every Message of every Conversation of the Collection has a role in
\* {user, assistant, system, tool} and a text that is not all-whitespace.
C5_MessagesWellFormed ==
  pc = "serving" =>
  \A k \in DOMAIN conversations :
    \A m \in DOMAIN conversations[k].messages :
      /\ conversations[k].messages[m].role \in Roles
      /\ \E c \in DOMAIN conversations[k].messages[m].text :
           ~IsSpace(conversations[k].messages[m].text[c])

\* the transcript of an entry: the messages along the first-child path of
\* its node graph, or the converted flat messages when it has no graph
Transcript(entry) ==
  IF entry.mapping # <<>>
  THEN LET root == FindRoot(entry.mapping)
           path == [k \in 1..Len(entry.mapping) |->
                      PathNode(entry.mapping, root[1], k)]
           ids == SelectSeq(path, LAMBDA x : x # None)
       IN IF root = None THEN <<>>
          ELSE MessagesOf(entry.mapping, [k \in DOMAIN ids |-> ids[k][1]])
  ELSE FlatMessages(entry.messages)

\* the conversations the export retains, in input order
Retained ==
  SelectSeq([k \in DOMAIN raw |-> [id |-> raw[k].id,
                title |-> IF raw[k].title = None THEN Untitled
                          ELSE raw[k].title[1],
                create_time |-> raw[k].create_time,
                messages |-> Transcript(raw[k])]],
            LAMBDA c : c.messages # <<>>)

\* C6: after load no Conversation has an empty message sequence, and the
\* Collection has as many Conversations as there are input entries that
\* yielded at least one Message.
C6_DropEmptyOnly ==
  pc = "serving" =>
    /\ \A k \in DOMAIN conversations : conversations[k].messages # <<>>
    /\ Len(conversations) =
         Cardinality({k \in DOMAIN raw : Transcript(raw[k]) # <<>>})

C6_Witness ==
  /\ pc = "serving"
  /\ Len(conversations) = 2
  /\ Len(raw) = 3
  /\ \E k \in DOMAIN raw : raw[k].mapping # <<>> /\ Transcript(raw[k]) = <<>>

Occurrences(seq, x) == Cardinality({k \in DOMAIN seq : seq[k] = x})

\* C7: after load the Collection is a permutation of the retained entries
\* in non-increasing order of create_time, an absent create_time being 0.
C7_SortedNewestFirst ==
  pc = "serving" =>
    /\ \A k \in 1..(Len(conversations) - 1) :
         TimeOf(conversations[k]) >= TimeOf(conversations[k + 1])
    /\ Len(conversations) = Len(Retained)
    /\ \A c \in Range(Retained) :
         Occurrences(conversations, c) = Occurrences(Retained, c)

C7_Witness ==
  /\ pc = "serving"
  /\ Len(conversations) = 3
  /\ \E k \in 1..2 :
       /\ conversations[k].create_time = None
       /\ TimeOf(conversations[k + 1]) < 0
  /\ conversations # Retained

\* the score of the conversation at position idx in a score table, as
\* <<num, den>>; <<0, 1>> when the table has no entry
ScoreIn(scores, idx) ==
  IF \E k \in DOMAIN scores : scores[k].idx = idx
  THEN LET e == scores[CHOOSE k \in DOMAIN scores : scores[k].idx = idx]
       IN <<e.num, e.den>>
  ELSE <<0, 1>>

\* is the lowercased query a contiguous substring of the lowercased title
PhraseInTitle(query, title) ==
  LET q == Lower(query)
      t == Lower(title)
  IN \E k \in 1..(Len(t) - Len(q) + 1) :
       \A c \in 1..Len(q) : t[k + c - 1] = q[c]

\* C8: the final score is twice the accumulated term score exactly when
\* the lowercased raw query is a substring of the lowercased title, and the
\* accumulated term score otherwise; an absent term score stays zero.
C8_TitleBoost ==
  (IsSearch /\ tokenize(response.query) # <<>>) =>
    /\ \A idx \in DOMAIN conversations :
         LET a == ScoreIn(response.out.acc, idx)
             f == ScoreIn(response.out.boosted, idx)
             factor == IF PhraseInTitle(response.query,
                                        conversations[idx].title)
                       THEN 2 ELSE 1
         IN f[1] * a[2] = factor * a[1] * f[2]
    /\ \A i \in DOMAIN Results :
         ScoreIn(response.out.boosted, Results[i].idx)
           = <<Results[i].num, Results[i].den>>

C8_Witness ==
  /\ IsSearch
  /\ \E i, j \in DOMAIN Results :
       /\ PhraseInTitle(response.query, conversations[Results[i].idx].title)
       /\ Results[i].num > 0
       /\ ~PhraseInTitle(response.query, conversations[Results[j].idx].title)
       /\ Range(tokenize(response.query))
            \subseteq Range(tokenize(conversations[Results[j].idx].title))
       /\ Results[j].num > 0
  /\ \E idx \in DOMAIN conversations :
       /\ PhraseInTitle(response.query, conversations[idx].title)
       /\ ScoreIn(response.out.acc, idx)[1] = 0
       /\ ScoreIn(response.out.boosted, idx)[1] = 0

\* the slice [min(offset, total), min(offset + limit, total)) of the
\* Collection
Slice(offset, limit) ==
  LET total == Len(conversations)
      lo == IF offset < total THEN offset ELSE total
      hi == IF offset + limit < total THEN offset + limit ELSE total
  IN [k \in 1..(hi - lo) |-> conversations[lo + k]]

\* C9 as stated: for every Collection, list_page returns the slice and the
\* total.
C9_PageOfEveryCollection ==
  IsList =>
    /\ response.out.kind = "page"
    /\ response.out.page = Slice(response.offset, response.limit)
    /\ response.out.total = Some(Len(conversations))

\* C9 (amended): for every non-empty Collection list_page returns the slice
\* [min(offset,total), min(offset+limit,total)) in Collection order with
\* the total, an offset at or beyond total giving an empty page; for an
\* empty Collection it returns the notice "No conversations loaded." with
\* neither page nor total.
C9_PageOfNonEmptyCollection ==
  IsList =>
    IF conversations # <<>>
    THEN /\ response.out.kind = "page"
         /\ response.out.page = Slice(response.offset, response.limit)
         /\ response.out.total = Some(Len(conversations))
         /\ response.offset >= Len(conversations) => response.out.page = <<>>
    ELSE /\ response.out.kind = "no_conversations"
         /\ response.out.page = <<>>
         /\ response.out.total = None

C9_Witness ==
  /\ IsList
  /\ Len(conversations) = 3
  /\ response.offset = 1
  /\ response.limit = 2
  /\ response.out.page = <<conversations[2], conversations[3]>>

\* C10: find_by_id returns the conversation at the smallest Collection
\* position whose id equals the argument, and "not found" when there is
\* none.
C10_FirstMatchWins ==
  IsGet =>
    LET hits == {k \in DOMAIN conversations :
                   conversations[k].id = response.conv_id}
    IN IF hits = {} THEN response.found = None
       ELSE /\ response.found # None
            /\ response.found[1] \in hits
            /\ \A k \in hits : response.found[1] <= k

C10_Witness ==
  /\ IsGet
  /\ response.found # None
  /\ Cardinality({k \in DOMAIN conversations :
                    conversations[k].id = response.conv_id}) >= 2

\* the date strings of the inputs that are not a YYYY-MM-DD date
NotADate == { <<"1","9","7","0","-","0","2","-","3","0">> }

\* the result sequence of the same search with other date arguments
ResultsWith(date_from, date_to) ==
  search(engine[1], conversations, response.query, response.limit,
         date_from, date_to).results

\* C11: a search whose date_from (date_to) is a string that is not a
\* YYYY-MM-DD date returns the result sequence of the same search with
\* that bound absent; the other bound is still applied.
C11_UnparsableDateIsNoBound ==
  IsSearch =>
    /\ (response.date_from # None /\ response.date_from[1] \in NotADate)
         => Results = ResultsWith(None, response.date_to)
    /\ (response.date_to # None /\ response.date_to[1] \in NotADate)
         => Results = ResultsWith(response.date_from, None)

C11_Witness ==
  /\ IsSearch
  /\ response.date_from # None
  /\ response.date_from[1] \in NotADate
  /\ response.date_to # None
  /\ BoundOf(response.date_to) = Some(Day)
  /\ Results # <<>>
  /\ Results # ResultsWith(None, None)

\* C12: a search, lookup or listing is answered only while serving, with
\* the Index in place; the Index is set once, on the step that starts
\* serving, from the complete Collection that step publishes; and from
\* then on no step changes the Collection or the Index.
C12_BuildThenFreeze ==
  [][/\ (response' # NoResponse /\ response' # response)
          => (pc = "serving" /\ engine # None)
     /\ engine' # engine
          => /\ engine = None
             /\ pc # "serving"
             /\ pc' = "serving"
             /\ entry_i > Len(raw)
             /\ Len(conversations') = Len(Retained)
             /\ engine' = Some(build_index(conversations'))
     /\ pc' = "serving" => engine' # None
     /\ pc = "serving" => UNCHANGED <<conversations, engine>>]_vars

C12_Witness ==
  /\ pc = "serving"
  /\ response # NoResponse
  /\ response.op = "search"
  /\ Len(conversations) = 3
  /\ conversations # Retained
  /\ Results # <<>>

\* C13: flattening never fails on a malformed node: whatever field of a
\* node or of its message is missing or invalid (a null author among
\* them), the walk goes on and the load proceeds.
C13_FlattenNeverFails == pc # "crashed"

\* does the node at position k of the graph have no parent, or a parent
\* id that is no key of the graph
Qualifies(mapping, k) ==
  \/ mapping[k].parent = None
  \/ \A j \in DOMAIN mapping : mapping[j].id # mapping[k].parent[1]

\* C14: the walk starts at the first node, in iteration order, whose
\* parent is absent or not in the graph; when no node qualifies the entry
\* yields no message and is dropped from the Collection.
C14_RootIsFirstCandidate ==
  /\ pc = "walk" =>
       LET mapping == raw[entry_i].mapping
       IN \E k \in DOMAIN mapping :
            /\ Qualifies(mapping, k)
            /\ \A j \in 1..(k - 1) : ~Qualifies(mapping, j)
            /\ root_id = Some(mapping[k].id)
            /\ (visited = <<>> => current_id = root_id)
            /\ (visited # <<>> => visited[1] = mapping[k].id)
  /\ \A e \in 1..(entry_i - 1) :
       (/\ e \in DOMAIN raw
        /\ raw[e].mapping # <<>>
        /\ \A k \in DOMAIN raw[e].mapping : ~Qualifies(raw[e].mapping, k))
         => \A c \in DOMAIN conversations : conversations[c].id # raw[e].id

C14_Witness ==
  /\ pc = "walk"
  /\ visited # <<>>
  /\ LET mapping == raw[entry_i].mapping
     IN /\ Qualifies(mapping, 1)
        /\ mapping[1].parent # None
        /\ Qualifies(mapping, 3)
        /\ visited[1] = mapping[1].id

\* the sum over the query's token occurrences of count(t, d) * idf(t)
RECURSIVE TermSum(_, _, _)
TermSum(tokens, doc, idf) ==
  IF tokens = <<>> THEN 0
  ELSE (IF Head(tokens) \in DOMAIN idf
        THEN Cardinality({k \in DOMAIN doc : doc[k] = Head(tokens)})
               * idf[Head(tokens)]
        ELSE 0)
       + TermSum(Tail(tokens), doc, idf)

\* the indexed text of a conversation as tokens: title, then the messages
DocTokens(conv) ==
  tokenize(Join(<<" ">>, <<conv.title>> \o
                  [k \in DOMAIN conv.messages |-> conv.messages[k].text]))

\* C15: before the title boost the score of a conversation d is the sum,
\* over the query's token occurrences t present in the Index, of
\* tf(t, d) * idf(t) with tf(t, d) = count(t, d) / total_token_count(d);
\* a conversation with none of the query tokens has no term score.
C15_TermScore ==
  IsSearch =>
    LET query_tokens == tokenize(response.query)
        acc == response.out.acc
    IN \A idx \in DOMAIN conversations :
         LET doc == DocTokens(conversations[idx])
             hits == {k \in DOMAIN acc : acc[k].idx = idx}
         IN IF \A k \in DOMAIN query_tokens :
                 \A d \in DOMAIN doc : doc[d] # query_tokens[k]
            THEN hits = {}
            ELSE /\ Cardinality(hits) = 1
                 /\ \A k \in hits :
                      acc[k].num * Len(doc)
                        = TermSum(query_tokens, doc, engine[1].idf)
                            * acc[k].den

C15_Witness ==
  /\ IsSearch
  /\ \E i, j \in DOMAIN tokenize(response.query) :
       /\ i # j
       /\ tokenize(response.query)[i] = tokenize(response.query)[j]
  /\ \E i \in DOMAIN tokenize(response.query) :
       tokenize(response.query)[i] \notin DOMAIN engine[1].idf
  /\ \E k \in DOMAIN response.out.acc : response.out.acc[k].num > 0
  /\ Len(response.out.acc) < Len(conversations)

\* C16: flattening terminates on every finite node graph.  The loop's
\* only state is current_id, so it returns exactly when it never comes
\* back to a node it has already visited.
C16_WalkTerminates ==
  pc = "walk" =>
    /\ \A i, j \in DOMAIN visited : i # j => visited[i] # visited[j]
    /\ current_id # None => current_id[1] \notin Range(visited)

\* C17: every returned conversation has a strictly positive score and
\* contains at least one token of the query in its indexed text.
C17_ResultsAreRelevant ==
  IsSearch =>
    \A i \in DOMAIN Results :
      /\ Results[i].num > 0
      /\ Range(tokenize(response.query))
           \cap Range(DocTokens(conversations[Results[i].idx])) # {}
====
